---- MODULE Spec2Model ----
(***************************************************************************)
(* LoadCellSavior (lcs.py): a serial line reader that timestamps integer   *)
(* readings into an in-memory CSV text and has a SIGINT handler meant to   *)
(* save that text to LoadCellData_<n>.csv.                                 *)
(*                                                                         *)
(* Text is modelled as a sequence of tokens: one token per character,      *)
(* except for the fixed words "Time_Ms,LoadCellReading_Grams",             *)
(* "LoadCellData" and ".csv", which are one token each.                    *)
(***************************************************************************)
EXTENDS Integers, Sequences, FiniteSets, TLC

VARIABLES
    pc,             \* where the main thread is: startup / check / read / stamp / append / exited
    arduino,        \* the module global `arduino`: "None", "open" or "closed"
    csv_text,       \* the module global `csv_text`
    ms_at_start,    \* the module global `ms_at_start`
    ms_since_start, \* the module global `ms_since_start`
    data,           \* loop()'s local `data` once int() has succeeded
    sigint_count,   \* the module global `sigint_count`
    outdir,         \* OUTPUT_DIR on disk: file name -> file text
    clock,          \* the last value int(time.time() * 1000) returned
    exit_status,    \* <<>> while the process runs, <<n>> once it has ended with status n
    exc,            \* the exception that ended the process, "SystemExit" for sys.exit, "none" before
    fed,            \* history: the raw lines readline() has returned, in order
    delivered,      \* history: the number of SIGINTs delivered to the process
    pc_at_sigint,   \* history: pc when the first SIGINT was delivered, "none" before
    reversed,       \* history: the wall clock has stepped backwards between two samples
    dir0            \* history: the output directory as the run found it

vars == <<pc, arduino, csv_text, ms_at_start, ms_since_start, data, sigint_count,
          outdir, clock, exit_status, exc, fed, delivered, pc_at_sigint, reversed, dir0>>

-----------------------------------------------------------------------------
(* Bounds of the model. *)

MaxReads == 4       \* lines the transport delivers before it falls silent
MaxRows == 2        \* how many of those lines are integers
MaxClock == 1       \* the wall clock's samples are drawn from 0..MaxClock

Times == 0..MaxClock

-----------------------------------------------------------------------------
(* Text: str.strip(), int(str), str(int). *)

Digits == <<"0", "1", "2", "3", "4", "5", "6", "7", "8", "9">>

DigitValue == [c \in {Digits[i] : i \in 1..10} |-> (CHOOSE i \in 1..10 : Digits[i] = c) - 1]

IsDigit(c) == c \in DOMAIN DigitValue

DigitVal(c) == DigitValue[c]

Whitespace == {" ", "\t", "\r", "\n"}

RECURSIVE LStrip(_)
LStrip(s) == IF s # <<>> /\ Head(s) \in Whitespace THEN LStrip(Tail(s)) ELSE s

RECURSIVE RStrip(_)
RStrip(s) ==
    IF s # <<>> /\ s[Len(s)] \in Whitespace THEN RStrip(SubSeq(s, 1, Len(s) - 1)) ELSE s

\* str.strip()
Strip(s) == RStrip(LStrip(s))

\* The digits of an int() literal: digits, single underscores only between two digits.
IntBodyOk(b) ==
    /\ b # <<>>
    /\ \A i \in 1..Len(b) :
          \/ IsDigit(b[i])
          \/ /\ b[i] = "_"
             /\ 1 < i /\ i < Len(b)
             /\ IsDigit(b[i - 1]) /\ IsDigit(b[i + 1])

RECURSIVE IntBodyVal(_, _)
IntBodyVal(b, acc) ==
    IF b = <<>> THEN acc
    ELSE IF Head(b) = "_" THEN IntBodyVal(Tail(b), acc)
    ELSE IntBodyVal(Tail(b), 10 * acc + DigitVal(Head(b)))

\* int(s) for a str s: [ok |-> FALSE] stands for ValueError.
PyInt(s) ==
    LET t    == Strip(s)
        neg  == t # <<>> /\ Head(t) = "-"
        body == IF t # <<>> /\ Head(t) \in {"+", "-"} THEN Tail(t) ELSE t
    IN  IF IntBodyOk(body)
        THEN [ok |-> TRUE,
              val |-> IF neg THEN 0 - IntBodyVal(body, 0) ELSE IntBodyVal(body, 0)]
        ELSE [ok |-> FALSE, val |-> 0]

RECURSIVE FormatNat(_)
FormatNat(n) ==
    IF n < 10 THEN <<Digits[n + 1]>> ELSE FormatNat(n \div 10) \o <<Digits[(n % 10) + 1]>>

\* str(n), as an f-string renders an int
FormatInt(n) == IF n < 0 THEN <<"-">> \o FormatNat(0 - n) ELSE FormatNat(n)

-----------------------------------------------------------------------------
(* The transport: readline() returns the bytes of one line. *)

BadByte == "0xFF"   \* a byte that is not valid UTF-8

Lines ==
    { <<"1", "2", "\n">>,
      <<"\n">>,
      <<"a", "b", "c", "\n">>,
      <<"4", "5", "\r", "\n">>,
      <<" ", "-", "7", "\t", "\n">>,
      <<"1", BadByte, "\n">> }

\* a slip: decode(errors="ignore"), which drops the bytes it cannot decode
DecodeIgnoringErrors(bytes) ==
    [ok |-> TRUE, text |-> SelectSeq(bytes, LAMBDA b : b # BadByte)]

\* bytes.decode("utf-8"): [ok |-> FALSE] stands for UnicodeDecodeError.
Decode(bytes) ==
    IF \E i \in 1..Len(bytes) : bytes[i] = BadByte
    THEN [ok |-> FALSE, text |-> <<>>]
    ELSE [ok |-> TRUE, text |-> bytes]

-----------------------------------------------------------------------------
(* The output directory. *)

Header == <<"Time_Ms,LoadCellReading_Grams", "\n">>

\* f"LoadCellData_{n}.csv"
FileName(n) == <<"LoadCellData", "_">> \o FormatInt(n) \o <<".csv">>

DirOf(indices) == [n \in {FileName(i) : i \in indices} |-> Header]

\* a .csv file with no "_" in its name, and one whose part after "_" is no number
NotesCsv == <<"n", "o", "t", "e", "s", ".csv">>
BadIndexCsv == <<"LoadCellData", "_", "x", ".csv">>

DirWith(names) == [n \in names |-> Header]

InitialDirs ==
    {DirOf({}), DirOf({3, 7}), DirWith({FileName(3), NotesCsv}),
     DirWith({FileName(3), BadIndexCsv})}

\* glob.glob(f"{OUTPUT_DIR}/*.csv"): the names that end in ".csv"
Glob(dir) == {n \in DOMAIN dir : n # <<>> /\ n[Len(n)] = ".csv"}

\* os.path.splitext(os.path.basename(file))[0]
Stem(name) == SubSeq(name, 1, Len(name) - 1)

RECURSIVE Find(_, _, _)
\* str.find(sep) from position i on: the first position that holds sep, 0 for none
Find(s, sep, i) ==
    IF i > Len(s) THEN 0 ELSE IF s[i] = sep THEN i ELSE Find(s, sep, i + 1)

RECURSIVE Split(_, _)
\* str.split(sep)
Split(s, sep) ==
    LET i == Find(s, sep, 1)
    IN  IF i = 0 THEN <<s>>
        ELSE <<SubSeq(s, 1, i - 1)>> \o Split(SubSeq(s, i + 1, Len(s)), sep)

\* the data rows of a CSV text: its lines after the header, without the empty
\* piece that follows the last newline
Rows(text) ==
    LET parts == Split(text, "\n")
    IN  SubSeq(parts, 2, Len(parts) - 1)

\* ...split('_')[1] exists
HasIndexPart(name) == Len(Split(Stem(name), "_")) >= 2

\* int(...split('_')[1]), as PyInt gives it
IndexOf(name) == PyInt(Split(Stem(name), "_")[2])

\* numbers = [int(...) for file in files], when no element raises
Numbers(files) == {IndexOf(f).val : f \in files}

\* max(numbers) of a non-empty collection
Max(S) == CHOOSE m \in S : \A x \in S : x <= m

\* with open(f"{OUTPUT_DIR}/{filename}", "w") as f: f.write(text)
WriteFile(dir, name, text) ==
    [n \in DOMAIN dir \cup {name} |-> IF n = name THEN text ELSE dir[n]]

-----------------------------------------------------------------------------
(* How the process ends. *)

\* an exception nobody catches: traceback, status 1
Uncaught(name) == [exc |-> name, status |-> 1]

\* sys.exit(n)
SysExit(n) == [exc |-> "SystemExit", status |-> n]

-----------------------------------------------------------------------------
(* handle_sigint, as the interpreter runs it. *)

HandlerParams == 0      \* def handle_sigint(): no parameters
SignalCallArgs == 2     \* a handler set by signal.signal is called as handler(signum, frame)

\* names handle_sigint assigns to, and names it declares global
HandlerAssigns == {"sigint_count"}
HandlerGlobals == {}

\* a name assigned in a function and not declared global is local to it
IsLocal(name) == name \in HandlerAssigns \ HandlerGlobals

\* Lines 159-186, for a call that binds its arguments and reads the global counter:
\* the set of ways the body can end (the order of a directory listing is not fixed).
HandlerBody(count, ard, dir, text) ==
    LET files   == Glob(dir)
        noPart  == {f \in files : ~HasIndexPart(f)}
        noInt   == {f \in files : HasIndexPart(f) /\ ~IndexOf(f).ok}
        same    == [end |-> SysExit(1), sigint_count |-> count, arduino |-> ard, outdir |-> dir]
        closed  == [same EXCEPT !.sigint_count = count + 1, !.arduino = "closed"]
        name    == FileName(Max(Numbers(files)) + 1)
    IN  IF count > 0 THEN {same}
        ELSE IF ard = "None"
        THEN {[same EXCEPT !.end = Uncaught("AttributeError"), !.sigint_count = count + 1]}
        ELSE IF noPart \cup noInt # {}
        THEN {[closed EXCEPT !.end = Uncaught("IndexError")] : f \in noPart}
             \cup {[closed EXCEPT !.end = Uncaught("ValueError")] : f \in noInt}
        ELSE IF files = {}
        THEN {[closed EXCEPT !.end = Uncaught("ValueError")]}
        ELSE {[closed EXCEPT !.end = SysExit(0), !.outdir = WriteFile(dir, name, text)]}

\* The call the interpreter makes when SIGINT arrives.
HandlerCall(count, ard, dir, text) ==
    LET same == [end |-> Uncaught("TypeError"), sigint_count |-> count,
                 arduino |-> ard, outdir |-> dir]
    IN  IF SignalCallArgs # HandlerParams THEN {same}
        ELSE IF IsLocal("sigint_count")
        THEN {[same EXCEPT !.end = Uncaught("UnboundLocalError")]}
        ELSE HandlerBody(count, ard, dir, text)

-----------------------------------------------------------------------------
(* The process. *)

Init ==
    /\ pc = "startup"
    /\ arduino = "None"
    /\ csv_text = Header
    /\ ms_at_start = 0
    /\ ms_since_start = 0
    /\ data = 0
    /\ sigint_count = 0
    /\ outdir \in InitialDirs
    /\ dir0 = outdir
    /\ clock = 0
    /\ exit_status = <<>>
    /\ exc = "none"
    /\ fed = <<>>
    /\ delivered = 0
    /\ pc_at_sigint = "none"
    /\ reversed = FALSE

\* the process ends: which exception, which status
Exit(end) ==
    /\ pc' = "exited"
    /\ exc' = end.exc
    /\ exit_status' = <<end.status>>

\* startup(), lines 120-129: the port opens
startup_connect ==
    /\ pc = "startup"
    /\ \E now \in Times :
          /\ ms_at_start' = now
          /\ clock' = now
    /\ arduino' = "open"
    /\ ms_since_start' = 0
    /\ pc' = "check"
    /\ UNCHANGED <<csv_text, data, sigint_count, outdir, exit_status, exc, fed,
                   delivered, pc_at_sigint, reversed, dir0>>

\* a slip: the except clause logs and forgets sys.exit(1), so startup() goes on
startup_fail_continues ==
    /\ pc = "startup"
    /\ \E now \in Times :
          /\ ms_at_start' = now
          /\ clock' = now
    /\ ms_since_start' = 0
    /\ pc' = "check"
    /\ UNCHANGED <<arduino, csv_text, data, sigint_count, outdir, exit_status, exc, fed,
                   delivered, pc_at_sigint, reversed, dir0>>

\* startup(), lines 120-125: serial.Serial raises SerialException
startup_fail ==
    /\ pc = "startup"
    /\ Exit(SysExit(1))
    /\ UNCHANGED <<arduino, csv_text, ms_at_start, ms_since_start, data, sigint_count,
                   outdir, clock, fed, delivered, pc_at_sigint, reversed, dir0>>

\* a slip: loop() goes to readline() without looking at the handle
loop_check_skips ==
    /\ pc = "check"
    /\ pc' = "read"
    /\ UNCHANGED <<arduino, csv_text, ms_at_start, ms_since_start, data, sigint_count,
                   outdir, clock, exit_status, exc, fed, delivered, pc_at_sigint,
                   reversed, dir0>>

\* loop(), lines 135-137
loop_check ==
    /\ pc = "check"
    /\ IF arduino # "open"
       THEN Exit(SysExit(1))
       ELSE pc' = "read" /\ UNCHANGED <<exc, exit_status>>
    /\ UNCHANGED <<arduino, csv_text, ms_at_start, ms_since_start, data, sigint_count,
                   outdir, clock, fed, delivered, pc_at_sigint, reversed, dir0>>

\* a slip: only the empty line is ignored, a failed int() is not
IgnoredOnlyIfEmpty(t) == t = <<>>

\* loop(), lines 142-148: the stripped line is ignored when it is empty or int() raises
\* ValueError
Ignored(t) == t = <<>> \/ ~PyInt(t).ok

\* a slip: the difference taken the wrong way round
ElapsedBackwards(now, start) == start - now

\* loop(), line 151: int(time.time() * 1000) - ms_at_start
Elapsed(now, start) == now - start

\* a slip: the two fields in the wrong order
CsvRowSwapped(ms, value) == FormatInt(value) \o <<",">> \o FormatInt(ms) \o <<"\n">>

\* loop(), line 153: f"{ms_since_start},{data}\n"
CsvRow(ms, value) == FormatInt(ms) \o <<",">> \o FormatInt(value) \o <<"\n">>

\* a slip: int() outside any try, so its ValueError ends the process
loop_read_uncaught ==
    /\ pc = "read"
    /\ IF arduino # "open"
       THEN Exit(Uncaught("SerialException")) /\ UNCHANGED <<data, fed>>
       ELSE /\ Len(fed) < MaxReads
            /\ \E line \in Lines :
                  LET d == Decode(line)
                      t == Strip(d.text)
                      v == PyInt(t)
                  IN  /\ (d.ok /\ v.ok) => Len(Rows(csv_text)) < MaxRows
                      /\ fed' = Append(fed, line)
                      /\ IF ~d.ok
                         THEN Exit(Uncaught("UnicodeDecodeError")) /\ UNCHANGED data
                         ELSE IF t = <<>>
                         THEN pc' = "check" /\ UNCHANGED <<data, exc, exit_status>>
                         ELSE IF ~v.ok
                         THEN Exit(Uncaught("ValueError")) /\ UNCHANGED data
                         ELSE pc' = "stamp" /\ data' = v.val
                              /\ UNCHANGED <<exc, exit_status>>
    /\ UNCHANGED <<arduino, csv_text, ms_at_start, ms_since_start, sigint_count,
                   outdir, clock, delivered, pc_at_sigint, reversed, dir0>>

\* loop(), lines 140-148: readline() returns a line; decode, strip, int.
\* readline() on a port that is no longer open raises (a SerialException).
loop_read ==
    /\ pc = "read"
    /\ IF arduino # "open"
       THEN Exit(Uncaught("SerialException")) /\ UNCHANGED <<data, fed>>
       ELSE /\ Len(fed) < MaxReads
            /\ \E line \in Lines :
                  LET d == Decode(line)
                      t == Strip(d.text)
                      v == PyInt(t)
                  IN  /\ (d.ok /\ v.ok) => Len(Rows(csv_text)) < MaxRows
                      /\ fed' = Append(fed, line)
                      /\ IF ~d.ok
                         THEN Exit(Uncaught("UnicodeDecodeError")) /\ UNCHANGED data
                         ELSE IF Ignored(t)
                         THEN pc' = "check" /\ UNCHANGED <<data, exc, exit_status>>
                         ELSE pc' = "stamp" /\ data' = v.val
                              /\ UNCHANGED <<exc, exit_status>>
    /\ UNCHANGED <<arduino, csv_text, ms_at_start, ms_since_start, sigint_count,
                   outdir, clock, delivered, pc_at_sigint, reversed, dir0>>

\* loop(), line 151
loop_stamp ==
    /\ pc = "stamp"
    /\ \E now \in Times :
          /\ ms_since_start' = Elapsed(now, ms_at_start)
          /\ clock' = now
          /\ reversed' = (reversed \/ now < clock)
    /\ pc' = "append"
    /\ UNCHANGED <<arduino, csv_text, ms_at_start, data, sigint_count, outdir,
                   exit_status, exc, fed, delivered, pc_at_sigint, dir0>>

\* a slip: loop() saves the text to disk after every reading
loop_append_saves ==
    /\ pc = "append"
    /\ csv_text' = csv_text \o CsvRow(ms_since_start, data)
    /\ outdir' = WriteFile(outdir, FileName(0), csv_text')
    /\ data' = 0
    /\ pc' = "check"
    /\ UNCHANGED <<arduino, ms_at_start, ms_since_start, sigint_count, clock,
                   exit_status, exc, fed, delivered, pc_at_sigint, reversed, dir0>>

\* loop(), lines 153-155
loop_append ==
    /\ pc = "append"
    /\ csv_text' = csv_text \o CsvRow(ms_since_start, data)
    /\ data' = 0
    /\ pc' = "check"
    /\ UNCHANGED <<arduino, ms_at_start, ms_since_start, sigint_count, outdir, clock,
                   exit_status, exc, fed, delivered, pc_at_sigint, reversed, dir0>>

\* The transport, an object outside the program, stops being open (the device goes
\* away): from then on arduino.is_open, read at line 135, is False.
transport_closes ==
    /\ pc \in {"check", "read", "stamp", "append"}
    /\ arduino = "open"
    /\ arduino' = "closed"
    /\ UNCHANGED <<pc, csv_text, ms_at_start, ms_since_start, data, sigint_count, outdir,
                   clock, exit_status, exc, fed, delivered, pc_at_sigint, reversed, dir0>>

\* a slip: a handler that returns to the interrupted code
handle_sigint_returns ==
    /\ pc # "exited"
    /\ delivered < 2
    /\ delivered' = delivered + 1
    /\ pc_at_sigint' = IF delivered = 0 THEN pc ELSE pc_at_sigint
    /\ UNCHANGED <<pc, arduino, csv_text, ms_at_start, ms_since_start, data, sigint_count,
                   outdir, clock, exit_status, exc, fed, reversed, dir0>>

\* SIGINT arrives (lines 158, 188): the interpreter calls the handler in the main
\* thread, between two of its steps; whatever the call raises ends the process.
handle_sigint ==
    /\ pc # "exited"
    /\ \E r \in HandlerCall(sigint_count, arduino, outdir, csv_text) :
          /\ Exit(r.end)
          /\ sigint_count' = r.sigint_count
          /\ arduino' = r.arduino
          /\ outdir' = r.outdir
    /\ delivered' = delivered + 1
    /\ pc_at_sigint' = IF delivered = 0 THEN pc ELSE pc_at_sigint
    /\ UNCHANGED <<csv_text, ms_at_start, ms_since_start, data, clock, fed, reversed, dir0>>

Next ==
    \/ startup_connect
    \/ startup_fail
    \/ loop_check
    \/ loop_read
    \/ loop_stamp
    \/ loop_append
    \/ transport_closes
    \/ handle_sigint

Spec == Init /\ [][Next]_vars

\* The runs that find the output directory empty.
InitEmptyDir == Init /\ outdir = DirOf({})

SpecEmptyDir == InitEmptyDir /\ [][Next]_vars

-----------------------------------------------------------------------------
(* Reading the state back: the rows of a CSV text, the files a run wrote. *)

LoopPcs == {"check", "read", "stamp", "append"}

\* the text splits into lines that each end in a newline
EndsWithNewline(text) == text # <<>> /\ text[Len(text)] = "\n"

\* a row is <int>,<int>
RowOk(row) ==
    LET f == Split(row, ",")
    IN  Len(f) = 2 /\ PyInt(f[1]).ok /\ PyInt(f[2]).ok

RowTime(row) == PyInt(Split(row, ",")[1]).val
RowValue(row) == PyInt(Split(row, ",")[2]).val

RowValues(text) == LET rows == Rows(text) IN [i \in 1..Len(rows) |-> RowValue(rows[i])]
RowTimes(text) == LET rows == Rows(text) IN [i \in 1..Len(rows) |-> RowTime(rows[i])]

\* a well-formed CSV document: the header, then complete <int>,<int> rows
WellFormed(text) ==
    /\ EndsWithNewline(text)
    /\ SubSeq(text, 1, Len(Header)) = Header
    /\ LET rows == Rows(text) IN \A i \in 1..Len(rows) : RowOk(rows[i])

IsPrefix(s, t) == Len(s) <= Len(t) /\ SubSeq(t, 1, Len(s)) = s

\* a line that decodes and is empty, blank or not a number once trimmed
Malformed(line) == Decode(line).ok /\ ~PyInt(Strip(Decode(line).text)).ok

\* the integer a line stands for: [ok |-> FALSE] when it does not decode or parse
LineInt(line) ==
    LET d == Decode(line)
    IN  IF d.ok THEN PyInt(Strip(d.text)) ELSE [ok |-> FALSE, val |-> 0]

\* LineInt, tabulated over the lines the transport can deliver
LineInts == [line \in Lines |-> LineInt(line)]

RECURSIVE Expected(_)
\* the integer values of the lines that parse, in arrival order
Expected(lines) ==
    IF lines = <<>> THEN <<>>
    ELSE LET v == LineInts[Head(lines)]
         IN  IF v.ok THEN <<v.val>> \o Expected(Tail(lines)) ELSE Expected(Tail(lines))

\* the last line read is parsed but its row is not appended yet
InFlight ==
    \/ pc \in {"stamp", "append"}
    \/ pc = "exited" /\ pc_at_sigint \in {"stamp", "append"}

\* the files of the output directory this run created or changed
Written == {n \in DOMAIN outdir : n \notin DOMAIN dir0 \/ outdir[n] # dir0[n]}

\* a name of the form LoadCellData_<digits>.csv
IsDataFile(n) ==
    /\ Len(n) >= 4
    /\ n[1] = "LoadCellData" /\ n[2] = "_" /\ n[Len(n)] = ".csv"
    /\ \A i \in 3..(Len(n) - 1) : IsDigit(n[i])

DataFiles(dir) == {n \in DOMAIN dir : IsDataFile(n)}

DataIndex(n) == IntBodyVal(SubSeq(n, 3, Len(n) - 1), 0)

\* the process ended on an interrupt that arrived while the ingestion loop ran
InterruptedInLoop == pc = "exited" /\ delivered >= 1 /\ pc_at_sigint \in LoopPcs

-----------------------------------------------------------------------------
(* Claims. *)

\* C1: one interrupt delivered while the ingestion loop runs closes the transport,
\* writes exactly one CSV file holding the header and every accumulated row, and
\* ends the process with status 0.
C1_InterruptSavesAndExitsZero ==
    (InterruptedInLoop /\ delivered = 1) =>
        /\ arduino = "closed"
        /\ Cardinality(Written) = 1
        /\ \A n \in Written : outdir[n] = csv_text
        /\ exit_status = <<0>>

\* C2: the first interrupt moves the handler from Armed to ShuttingDown (the signal
\* counter goes 0 -> 1); a second interrupt ends the process with a non-zero status
\* and without the write.
C2_CounterArmsOnFirstInterrupt ==
    /\ delivered = 1 => sigint_count = 1
    /\ delivered = 2 => (exit_status = <<1>> /\ Written = {})

\* C3: with no LoadCellData_<i>.csv in the output directory the next index is 0:
\* the handler writes LoadCellData_0.csv and the empty directory is not an error.
C3_EmptyDirWritesIndexZero ==
    (InterruptedInLoop /\ DataFiles(dir0) = {}) =>
        /\ Written = {FileName(0)}
        /\ exit_status = <<0>>

\* C4: with LoadCellData_<i>.csv files present the index computed is 1 + the largest
\* i, and the file written is LoadCellData_<that index>.csv.
C4_WritesMaxPlusOne ==
    (InterruptedInLoop /\ DataFiles(dir0) # {}) =>
        Written = {FileName(1 + Max({DataIndex(n) : n \in DataFiles(dir0)}))}

\* C5: the accumulated CSV holds exactly one data row per line that parses as an
\* integer after trimming, in arrival order, each carrying its line's integer value
\* (the row of the line being processed is appended by the end of its iteration).
C5_RowPerParsedLine ==
    /\ EndsWithNewline(csv_text)
    /\ SubSeq(csv_text, 1, Len(Header)) = Header
    /\ LET e      == Expected(fed)
           want   == IF InFlight THEN SubSeq(e, 1, Len(e) - 1) ELSE e
           rows   == Rows(csv_text)
           fields == [i \in 1..Len(rows) |-> Split(rows[i], ",")]
       IN  /\ Len(rows) = Len(want)
           /\ \A i \in 1..Len(rows) :
                 /\ Len(fields[i]) = 2
                 /\ PyInt(fields[i][1]).ok
                 /\ PyInt(fields[i][2]) = [ok |-> TRUE, val |-> want[i]]

\* C5 witness: the lines "12", "", "abc", "45" have been read and the text holds two
\* rows, 12 then 45.
C5_Witness ==
    /\ pc = "check"
    /\ fed = << <<"1", "2", "\n">>, <<"\n">>, <<"a", "b", "c", "\n">>,
                <<"4", "5", "\r", "\n">> >>
    /\ RowValues(csv_text) = <<12, 45>>

\* C6: an iteration whose line is empty, blank or not a number after trimming changes
\* neither the CSV text nor the elapsed time, raises nothing, and the loop goes on to
\* its next iteration.
C6_MalformedLineIsNoOp ==
    [][(Len(fed') = Len(fed) + 1 /\ Malformed(fed'[Len(fed')])) =>
          /\ csv_text' = csv_text
          /\ ms_since_start' = ms_since_start
          /\ exit_status' = <<>>
          /\ pc' = "check"]_vars

\* C6 witness: a malformed line has just been dropped from a session that already
\* holds a row.
C6_Witness ==
    /\ pc = "check"
    /\ fed # <<>> /\ Malformed(fed[Len(fed)])
    /\ Len(Rows(csv_text)) >= 1
    /\ ms_since_start > 0

\* C7: while the clock has never gone backwards the elapsed_ms of the rows are
\* non-negative and non-decreasing in row order; the start timestamp is set at
\* connect time and no later step changes it.
C7_ElapsedMonotoneStartFixed ==
    /\ [](~reversed =>
            LET t == RowTimes(csv_text)
            IN  /\ \A i \in 1..Len(t) : t[i] >= 0
                /\ \A i \in 1..Len(t) : \A j \in i..Len(t) : t[i] <= t[j])
    /\ [][pc # "startup" => ms_at_start' = ms_at_start]_vars

\* C7 witness: under a clock that never went back the session holds rows stamped at
\* different times.
C7_Witness ==
    /\ ~reversed
    /\ Len(Rows(csv_text)) >= 2
    /\ RowTimes(csv_text)[1] < RowTimes(csv_text)[2]

\* C8: the persisted file holds every row appended before the interrupt, holds the
\* reading in flight as one complete row or not at all, and never a partial row.
C8_FileHoldsRowsAppendedBefore ==
    InterruptedInLoop =>
        \E n \in Written :
            /\ WellFormed(outdir[n])
            /\ IsPrefix(csv_text, outdir[n])
            /\ Len(Rows(outdir[n])) <= Len(Rows(csv_text)) + 1

\* C11: the next index comes only from the files named LoadCellData_<index>.csv:
\* other files in the output directory, other .csv files included, neither change
\* the index nor prevent the write.
C11_OtherFilesDoNotCount ==
    (InterruptedInLoop /\ DOMAIN dir0 # DataFiles(dir0)) =>
        /\ exit_status = <<0>>
        /\ Written = {FileName(IF DataFiles(dir0) = {} THEN 0
                               ELSE 1 + Max({DataIndex(n) : n \in DataFiles(dir0)}))}

\* C12: a loop iteration that finds the transport absent or closed ends the process
\* with a non-zero status, reads nothing and writes no file; the handle is looked at
\* at the start of every iteration, before the blocking read.
C12_ClosedTransportIsFatal ==
    /\ [][(pc = "check" /\ arduino # "open" /\ pc' # pc /\ delivered' = delivered) =>
             /\ pc' = "exited"
             /\ exit_status' = <<1>>
             /\ fed' = fed
             /\ outdir' = outdir]_vars
    /\ [][(pc' = "read" /\ pc # "read") => (pc = "check" /\ arduino = "open")]_vars

\* C12 witness: the transport was closed under a running loop, which then ended the
\* process at its check.
C12_Witness ==
    /\ pc = "exited"
    /\ delivered = 0
    /\ arduino = "closed"
    /\ exc = "SystemExit"
    /\ exit_status = <<1>>
    /\ Len(fed) >= 1

\* C13: when the transport cannot be opened the process ends with a non-zero status
\* before the start timestamp is taken and before any loop iteration: without a
\* transport nothing is read and nothing appended.
C13_OpenFailureIsFatal ==
    /\ arduino = "None" =>
          /\ pc \in {"startup", "exited"}
          /\ ms_at_start = 0 /\ clock = 0
          /\ fed = <<>>
          /\ csv_text = Header
    /\ (pc = "exited" /\ arduino = "None" /\ delivered = 0) => exit_status = <<1>>

\* C13 witness: serial.Serial failed and the process has ended.
C13_Witness ==
    /\ pc = "exited"
    /\ arduino = "None"
    /\ delivered = 0
    /\ exc = "SystemExit"

\* a line with a byte that is not UTF-8
Undecodable(line) == \E i \in 1..Len(line) : line[i] = BadByte

\* C14: a line that cannot be decoded ends the process with a non-zero status and
\* appends nothing; a line that decodes and is not an integer is dropped and the loop
\* continues.
C14_DecodeFatalParseIgnored ==
    [][Len(fed') = Len(fed) + 1 =>
          LET line == fed'[Len(fed')]
          IN  /\ Undecodable(line) =>
                    /\ pc' = "exited"
                    /\ exit_status' = <<1>>
                    /\ csv_text' = csv_text
                    /\ data' = data
              /\ (~Undecodable(line) /\ ~PyInt(Strip(line)).ok) =>
                    /\ pc' = "check"
                    /\ exit_status' = <<>>
                    /\ csv_text' = csv_text]_vars

\* C14 witness: a run dropped a non-numeric line, went on to append a row, and ended
\* on a line it could not decode.
C14_Witness ==
    /\ pc = "exited"
    /\ exc = "UnicodeDecodeError"
    /\ Len(fed) = 3
    /\ fed[1] = <<"a", "b", "c", "\n">>
    /\ Len(Rows(csv_text)) = 1

\* C15: a run writes at most one output file, and no step of the ingestion loop or of
\* its fatal exits writes to the output directory: only a step of the interrupt
\* handler may.
C15_OnlyHandlerMayWrite ==
    /\ [](Cardinality(Written) <= 1)
    /\ [][delivered' = delivered => outdir' = outdir]_vars

\* C15 witness: a loop that appended rows ended on a fatal error with the output
\* directory as it found it.
C15_Witness ==
    /\ pc = "exited"
    /\ delivered = 0
    /\ Len(Rows(csv_text)) >= 2
    /\ outdir = dir0

\* C16: closing the transport is best-effort: an interrupt that arrives before the
\* transport handle exists still has the accumulated text written and the process
\* ended with status 0.
C16_CloseIsBestEffort ==
    (pc = "exited" /\ delivered >= 1 /\ pc_at_sigint = "startup") =>
        /\ exit_status = <<0>>
        /\ Cardinality(Written) = 1
        /\ \A n \in Written : outdir[n] = csv_text

\* a .csv file of the directory whose index cannot be extracted or parsed
Unparsable(dir) == {n \in Glob(dir) : ~HasIndexPart(n) \/ ~IndexOf(n).ok}

\* C17: when the directory scan meets a file whose index cannot be extracted or
\* parsed, the process reports that failure itself and ends through sys.exit with a
\* non-zero status, and no output file is written.
C17_UnparsableIndexIsReported ==
    (InterruptedInLoop /\ Unparsable(dir0) # {}) =>
        /\ exc = "SystemExit"
        /\ exit_status = <<1>>
        /\ Written = {}

\* C18: once an interrupt has been delivered control never returns to the loop: the
\* process has ended, no line is read and no row appended afterwards, and the
\* handler's own step leaves the session (text, start timestamp, elapsed time) alone.
C18_NoReturnToLoop ==
    /\ [](delivered >= 1 => pc = "exited")
    /\ [][delivered >= 1 => (csv_text' = csv_text /\ fed' = fed)]_vars
    /\ [][delivered' # delivered =>
             /\ csv_text' = csv_text
             /\ ms_at_start' = ms_at_start
             /\ ms_since_start' = ms_since_start
             /\ fed' = fed]_vars

\* C18 witness: the interrupt arrived between the stamping of a reading and its
\* append to a text that already held a row.
C18_Witness ==
    /\ delivered = 1
    /\ pc = "exited"
    /\ pc_at_sigint = "append"
    /\ Len(Rows(csv_text)) = 1

\* C19: the loop has no exit of its own: a process that has ended was interrupted,
\* found its transport absent or closed, or met a line it could not decode; and the
\* loop leaves its blocking read only with a line, never by a timeout.
C19_LoopHasNoExit ==
    /\ [](pc = "exited" =>
             \/ delivered >= 1
             \/ arduino # "open"
             \/ exc = "UnicodeDecodeError")
    /\ [][(pc = "read" /\ pc' # "read") =>
             \/ Len(fed') = Len(fed) + 1
             \/ arduino # "open"
             \/ delivered' # delivered]_vars

\* C19 witness: after well-formed and malformed lines the transport has fallen silent
\* and the process is still waiting in its read.
C19_Witness ==
    /\ pc = "read"
    /\ arduino = "open"
    /\ delivered = 0
    /\ Len(fed) = MaxReads
    /\ Len(Rows(csv_text)) >= 1
    /\ Len(Rows(csv_text)) < Len(fed)

====
